---- MODULE Spec2Model ----
(***************************************************************************)
(* Model of the ASDE configuration layer (src/asdeconfig.py).              *)
(*                                                                         *)
(* Strings are sequences of one-character strings, so that str.lower(),    *)
(* int(str) and the formatting of an integer into a message are computed   *)
(* as Python computes them.  The process environment (os.environ) is a     *)
(* function from the names of the variables that are set to their values;  *)
(* the filesystem is the set of paths that exist.                          *)
(***************************************************************************)
EXTENDS Integers, Sequences, FiniteSets, TLC

VARIABLES env, fs, pc, self, ret, obj, fresh, ops, calls

vars == <<env, fs, pc, self, ret, obj, fresh, ops, calls>>

(***************************************************************************)
(* Bounds of the model.                                                    *)
(***************************************************************************)
\* changes made around the construction in one behaviour: to the environment,
\* to the files, and to the attributes of a constructed object
MaxOps == 1
\* calls of ASDEConfig() in one behaviour
MaxCalls == 1

(***************************************************************************)
(* String literals of the source and of the environments explored.         *)
(***************************************************************************)
s_empty == <<>>
s_true == <<"t", "r", "u", "e">>
s_TRUE == <<"T", "R", "U", "E">>
s_True == <<"T", "r", "u", "e">>
s_false == <<"f", "a", "l", "s", "e">>
s_yes == <<"y", "e", "s">>
s_1 == <<"1">>
s_0 == <<"0">>
s_m1 == <<"-", "1">>
s_4 == <<"4">>
s_29 == <<"2", "9">>
s_30 == <<"3", "0">>
s_300 == <<"3", "0", "0">>
s_100000 == <<"1", "0", "0", "0", "0", "0">>
s_sp7 == <<" ", "7", "\n">>
s_abc == <<"a", "b", "c">>
s_4dot5 == <<"4", ".", "5">>
s_INFO == <<"I", "N", "F", "O">>
s_DEBUG == <<"D", "E", "B", "U", "G">>
s_WARNING == <<"W", "A", "R", "N", "I", "N", "G">>
s_ERROR == <<"E", "R", "R", "O", "R">>
s_CRITICAL == <<"C", "R", "I", "T", "I", "C", "A", "L">>
s_info == <<"i", "n", "f", "o">>
s_TRACE == <<"T", "R", "A", "C", "E">>
s_ccxt == <<"c", "c", "x", "t">>
s_yfinance == <<"y", "f", "i", "n", "a", "n", "c", "e">>
s_alpaca == <<"a", "l", "p", "a", "c", "a">>
s_kraken == <<"k", "r", "a", "k", "e", "n">>
s_proj1 == <<"p", "r", "o", "j", "-", "1">>
s_sys2 == <<"s", "y", "s", "-", "2">>
s_asde_prod_001 == <<"a", "s", "d", "e", "-", "p", "r", "o", "d", "-", "0", "0", "1">>
s_firebase_credentials_json ==
    <<"f", "i", "r", "e", "b", "a", "s", "e", "-", "c", "r", "e", "d", "e", "n",
      "t", "i", "a", "l", "s", ".", "j", "s", "o", "n">>
s_creds_json == <<"c", "r", "e", "d", "s", ".", "j", "s", "o", "n">>

(***************************************************************************)
(* Python's str and int primitives.                                        *)
(***************************************************************************)
UpperChars ==
    <<"A", "B", "C", "D", "E", "F", "G", "H", "I", "J", "K", "L", "M",
      "N", "O", "P", "Q", "R", "S", "T", "U", "V", "W", "X", "Y", "Z">>

LowerChars ==
    <<"a", "b", "c", "d", "e", "f", "g", "h", "i", "j", "k", "l", "m",
      "n", "o", "p", "q", "r", "s", "t", "u", "v", "w", "x", "y", "z">>

DigitChars == <<"0", "1", "2", "3", "4", "5", "6", "7", "8", "9">>

Range(f) == {f[i] : i \in DOMAIN f}

IndexOf(seq, c) == CHOOSE i \in DOMAIN seq : seq[i] = c

LowerChar(c) ==
    IF c \in Range(UpperChars) THEN LowerChars[IndexOf(UpperChars, c)] ELSE c

\* str.lower()
Lower(s) == [i \in DOMAIN s |-> LowerChar(s[i])]

IsSpace(c) == c \in {" ", "\t", "\n", "\r", "\f"}

RECURSIVE LStrip(_)
LStrip(s) == IF s # <<>> /\ IsSpace(Head(s)) THEN LStrip(Tail(s)) ELSE s

RECURSIVE RStrip(_)
RStrip(s) ==
    IF s # <<>> /\ IsSpace(s[Len(s)]) THEN RStrip(SubSeq(s, 1, Len(s) - 1)) ELSE s

\* str.strip()
Strip(s) == RStrip(LStrip(s))

\* the part of an integer literal after its sign
Unsigned(t) == IF t # <<>> /\ Head(t) \in {"+", "-"} THEN Tail(t) ELSE t

\* whether int(s) accepts s: surrounding whitespace, an optional sign, then
\* decimal digits with single underscores between them
IsIntLiteral(s) ==
    LET b == Unsigned(Strip(s))
    IN  /\ b # <<>>
        /\ \A i \in DOMAIN b : b[i] \in Range(DigitChars) \cup {"_"}
        /\ b[1] # "_"
        /\ b[Len(b)] # "_"
        /\ \A i \in 1..(Len(b) - 1) : ~(b[i] = "_" /\ b[i + 1] = "_")

DigitVal(c) == IndexOf(DigitChars, c) - 1

RECURSIVE Magnitude(_, _)
Magnitude(b, acc) ==
    IF b = <<>> THEN acc
    ELSE IF Head(b) = "_" THEN Magnitude(Tail(b), acc)
    ELSE Magnitude(Tail(b), 10 * acc + DigitVal(Head(b)))

\* the value of int(s) for an s that int() accepts
IntValue(s) ==
    LET t == Strip(s)
        m == Magnitude(Unsigned(t), 0)
    IN  IF Head(t) = "-" THEN 0 - m ELSE m

RECURSIVE NatToStr(_)
NatToStr(n) ==
    IF n < 10 THEN <<DigitChars[n + 1]>>
    ELSE NatToStr(n \div 10) \o <<DigitChars[(n % 10) + 1]>>

\* str(n), as an f-string formats an int
IntToStr(n) == IF n < 0 THEN <<"-">> \o NatToStr(0 - n) ELSE NatToStr(n)

(***************************************************************************)
(* Results of evaluating a piece of code: a value, or a raised exception.  *)
(* An exception is its type, the text of its message with {} where a value *)
(* is formatted in, that value, and the environment variables the text     *)
(* names.                                                                  *)
(***************************************************************************)
None == [none |-> TRUE]

Value(v) == [raised |-> FALSE, val |-> v]

Raised(e) == [raised |-> TRUE, err |-> e]

Exception(type, msg, arg, names) ==
    [type |-> type, msg |-> msg, arg |-> arg, names |-> names]

\* os.getenv(name, default)
Getenv(e, name, default) == IF name \in DOMAIN e THEN e[name] ELSE default

\* int(s)
PyInt(s) ==
    IF IsIntLiteral(s) THEN Value(IntValue(s))
    ELSE Raised(Exception("ValueError",
                          "invalid literal for int() with base 10: {}", <<s>>, {}))

\* class LogLevel(Enum): the members' names and values
LogLevelNames == {s_DEBUG, s_INFO, s_WARNING, s_ERROR, s_CRITICAL}

LogLevelValue(name) ==
    CASE name = s_DEBUG -> 10
      [] name = s_INFO -> 20
      [] name = s_WARNING -> 30
      [] name = s_ERROR -> 40
      [] name = s_CRITICAL -> 50

\* LogLevel[name]
LogLevel(name) ==
    IF name \in LogLevelNames
    THEN Value([name |-> name, value |-> LogLevelValue(name)])
    ELSE Raised(Exception("KeyError", "{}", <<name>>, {}))

\* EnvFlag without the lower(): "TRUE" and "True" would read as false
EnvFlag_CaseSensitive(e, name, default) == Value(Getenv(e, name, default) = s_true)

\* os.getenv(name, default).lower() == "true"
EnvFlag(e, name, default) == Value(Lower(Getenv(e, name, default)) = s_true)

(***************************************************************************)
(* A dataclass's generated __init__: the default factories run in the      *)
(* order the fields are declared, and the first one that raises ends the   *)
(* construction.                                                           *)
(***************************************************************************)
DataclassInit(order, res) ==
    LET bad == {i \in DOMAIN order : res[order[i]].raised}
    IN  IF bad # {}
        THEN LET first == CHOOSE i \in bad : \A j \in bad : i <= j
             IN  Raised(res[order[first]].err)
        ELSE Value([f \in Range(order) |-> res[f].val])

FirebaseConfigFields == <<"project_id", "credentials_path">>

FirebaseConfigFactories(e) ==
    [project_id |-> Value(Getenv(e, "FIREBASE_PROJECT_ID", s_empty)),
     credentials_path |->
         Value(Getenv(e, "FIREBASE_CREDENTIALS", s_firebase_credentials_json))]

\* FirebaseConfig()
FirebaseConfig(e) == DataclassInit(FirebaseConfigFields, FirebaseConfigFactories(e))

\* FirebaseConfig.validate with its two checks exchanged
FirebaseValidate_FileFirst(c, files) ==
    IF c.credentials_path \notin files
    THEN Raised(Exception("FileNotFoundError",
                          "Firebase credentials not found at: {}",
                          <<c.credentials_path>>, {}))
    ELSE IF c.project_id = s_empty
    THEN Raised(Exception("ValueError",
                          "FIREBASE_PROJECT_ID environment variable must be set",
                          <<>>, {"FIREBASE_PROJECT_ID"}))
    ELSE Value(None)

\* FirebaseConfig.validate
FirebaseValidate(c, files) ==
    IF c.project_id = s_empty
    THEN Raised(Exception("ValueError",
                          "FIREBASE_PROJECT_ID environment variable must be set",
                          <<>>, {"FIREBASE_PROJECT_ID"}))
    ELSE IF c.credentials_path \notin files
    THEN Raised(Exception("FileNotFoundError",
                          "Firebase credentials not found at: {}",
                          <<c.credentials_path>>, {}))
    ELSE Value(None)

DataConfigFields == <<"market_data_source", "max_data_points", "cache_enabled">>

\* DataConfigFactories with a zero dropped from the default of MAX_DATA_POINTS
DataConfigFactories_WrongDefault(e) ==
    [market_data_source |-> Value(Getenv(e, "MARKET_DATA_SOURCE", s_ccxt)),
     max_data_points |-> PyInt(Getenv(e, "MAX_DATA_POINTS", Tail(s_100000))),
     cache_enabled |-> EnvFlag(e, "CACHE_ENABLED", s_true)]

DataConfigFactories(e) ==
    [market_data_source |-> Value(Getenv(e, "MARKET_DATA_SOURCE", s_ccxt)),
     max_data_points |-> PyInt(Getenv(e, "MAX_DATA_POINTS", s_100000)),
     cache_enabled |-> EnvFlag(e, "CACHE_ENABLED", s_true)]

\* DataConfig()
DataConfig(e) == DataclassInit(DataConfigFields, DataConfigFactories(e))

valid_sources == {s_ccxt, s_yfinance, s_alpaca}

\* DataConfig.validate
DataValidate(c) ==
    IF c.max_data_points <= 0
    THEN Raised(Exception("ValueError", "MAX_DATA_POINTS must be positive, got {}",
                          <<IntToStr(c.max_data_points)>>, {"MAX_DATA_POINTS"}))
    ELSE IF c.market_data_source \notin valid_sources
    THEN Raised(Exception("ValueError",
                          "Invalid market data source. Must be one of ['ccxt', 'yfinance', 'alpaca']",
                          <<>>, {}))
    ELSE Value(None)

\* ASDEConfigFields with the performance fields declared before the sub-configs
ASDEConfigFields_Reordered ==
    <<"log_level", "system_id", "max_parallel_experiments",
      "simulation_timeout_seconds", "firebase", "data", "enable_causal_discovery",
      "enable_live_trading">>

ASDEConfigFields ==
    <<"log_level", "system_id", "firebase", "data", "max_parallel_experiments",
      "simulation_timeout_seconds", "enable_causal_discovery", "enable_live_trading">>

ASDEConfigFactories(e) ==
    [log_level |-> LogLevel(Getenv(e, "LOG_LEVEL", s_INFO)),
     system_id |-> Value(Getenv(e, "SYSTEM_ID", s_asde_prod_001)),
     firebase |-> FirebaseConfig(e),
     data |-> DataConfig(e),
     max_parallel_experiments |-> PyInt(Getenv(e, "MAX_PARALLEL_EXPERIMENTS", s_4)),
     simulation_timeout_seconds |->
         PyInt(Getenv(e, "SIMULATION_TIMEOUT_SECONDS", s_300)),
     enable_causal_discovery |-> EnvFlag(e, "ENABLE_CAUSAL_DISCOVERY", s_true),
     enable_live_trading |-> EnvFlag(e, "ENABLE_LIVE_TRADING", s_false)]

\* ASDEConfig.__init__ up to the call of __post_init__
ASDEConfigInit(e) == DataclassInit(ASDEConfigFields, ASDEConfigFactories(e))

\* variants of PostInitTry: without the call of self.data.validate() ...
PostInitTry_NoDataCheck(c, files) ==
    LET f == FirebaseValidate(c.firebase, files)
    IN  IF f.raised THEN f
        ELSE IF c.max_parallel_experiments <= 0
        THEN Raised(Exception("ValueError",
                              "MAX_PARALLEL_EXPERIMENTS must be at least 1",
                              <<>>, {"MAX_PARALLEL_EXPERIMENTS"}))
        ELSE IF c.simulation_timeout_seconds < 30
        THEN Raised(Exception("ValueError",
                              "SIMULATION_TIMEOUT_SECONDS must be at least 30 seconds",
                              <<>>, {"SIMULATION_TIMEOUT_SECONDS"}))
        ELSE Value(None)

\* ... with self.data.validate() called before self.firebase.validate() ...
PostInitTry_DataFirst(c, files) ==
    LET f == FirebaseValidate(c.firebase, files)
        d == DataValidate(c.data)
    IN  IF d.raised THEN d
        ELSE IF f.raised THEN f
        ELSE IF c.max_parallel_experiments <= 0
        THEN Raised(Exception("ValueError",
                              "MAX_PARALLEL_EXPERIMENTS must be at least 1",
                              <<>>, {"MAX_PARALLEL_EXPERIMENTS"}))
        ELSE IF c.simulation_timeout_seconds < 30
        THEN Raised(Exception("ValueError",
                              "SIMULATION_TIMEOUT_SECONDS must be at least 30 seconds",
                              <<>>, {"SIMULATION_TIMEOUT_SECONDS"}))
        ELSE Value(None)

\* ... and with <= 30 for < 30 in the last check
PostInitTry_OffByOne(c, files) ==
    LET f == FirebaseValidate(c.firebase, files)
        d == DataValidate(c.data)
    IN  IF f.raised THEN f
        ELSE IF d.raised THEN d
        ELSE IF c.max_parallel_experiments <= 0
        THEN Raised(Exception("ValueError",
                              "MAX_PARALLEL_EXPERIMENTS must be at least 1",
                              <<>>, {"MAX_PARALLEL_EXPERIMENTS"}))
        ELSE IF c.simulation_timeout_seconds <= 30
        THEN Raised(Exception("ValueError",
                              "SIMULATION_TIMEOUT_SECONDS must be at least 30 seconds",
                              <<>>, {"SIMULATION_TIMEOUT_SECONDS"}))
        ELSE Value(None)

\* the body of the try statement of ASDEConfig.__post_init__
PostInitTry(c, files) ==
    LET f == FirebaseValidate(c.firebase, files)
        d == DataValidate(c.data)
    IN  IF f.raised THEN f
        ELSE IF d.raised THEN d
        ELSE IF c.max_parallel_experiments <= 0
        THEN Raised(Exception("ValueError",
                              "MAX_PARALLEL_EXPERIMENTS must be at least 1",
                              <<>>, {"MAX_PARALLEL_EXPERIMENTS"}))
        ELSE IF c.simulation_timeout_seconds < 30
        THEN Raised(Exception("ValueError",
                              "SIMULATION_TIMEOUT_SECONDS must be at least 30 seconds",
                              <<>>, {"SIMULATION_TIMEOUT_SECONDS"}))
        ELSE Value(None)

\* the handlers of that try statement: an error raised by a check is
\* propagated to the caller of the construction, not swallowed
PostInitExcept(r) == r

\* ASDEConfig.__post_init__
PostInit(c, files) == PostInitExcept(PostInitTry(c, files))

(***************************************************************************)
(* The environments, files and assigned values explored.                   *)
(***************************************************************************)
EnvNames ==
    {"LOG_LEVEL", "SYSTEM_ID", "FIREBASE_PROJECT_ID", "FIREBASE_CREDENTIALS",
     "MARKET_DATA_SOURCE", "MAX_DATA_POINTS", "CACHE_ENABLED",
     "MAX_PARALLEL_EXPERIMENTS", "SIMULATION_TIMEOUT_SECONDS",
     "ENABLE_CAUSAL_DISCOVERY", "ENABLE_LIVE_TRADING"}

IntNames == {"MAX_DATA_POINTS", "MAX_PARALLEL_EXPERIMENTS", "SIMULATION_TIMEOUT_SECONDS"}

FlagNames == {"CACHE_ENABLED", "ENABLE_CAUSAL_DISCOVERY", "ENABLE_LIVE_TRADING"}

IntStrings == {s_0, s_1, s_m1, s_29, s_30, s_sp7, s_abc, s_4dot5, s_empty}

FlagStrings == {s_true, s_TRUE, s_True, s_false, s_yes, s_1, s_empty}

EnvValues(name) ==
    CASE name = "LOG_LEVEL" -> {s_DEBUG, s_CRITICAL, s_info, s_TRACE}
      [] name = "SYSTEM_ID" -> {s_sys2}
      [] name = "FIREBASE_PROJECT_ID" -> {s_proj1, s_empty}
      [] name = "FIREBASE_CREDENTIALS" -> {s_creds_json}
      [] name = "MARKET_DATA_SOURCE" -> {s_yfinance, s_alpaca, s_kraken}
      [] name \in IntNames -> IntStrings
      [] name \in FlagNames -> FlagStrings

Paths == {s_firebase_credentials_json, s_creds_json}

EmptyEnv == [n \in {} |-> s_empty]

MinimalEnv == [n \in {"FIREBASE_PROJECT_ID", "FIREBASE_CREDENTIALS"} |->
                 IF n = "FIREBASE_PROJECT_ID" THEN s_proj1 ELSE s_creds_json]

FullEnv ==
    [n \in EnvNames |->
        CASE n = "LOG_LEVEL" -> s_DEBUG
          [] n = "SYSTEM_ID" -> s_sys2
          [] n = "FIREBASE_PROJECT_ID" -> s_proj1
          [] n = "FIREBASE_CREDENTIALS" -> s_creds_json
          [] n = "MARKET_DATA_SOURCE" -> s_yfinance
          [] n = "MAX_DATA_POINTS" -> s_1
          [] n = "CACHE_ENABLED" -> s_TRUE
          [] n = "MAX_PARALLEL_EXPERIMENTS" -> s_1
          [] n = "SIMULATION_TIMEOUT_SECONDS" -> s_30
          [] n = "ENABLE_CAUSAL_DISCOVERY" -> s_false
          [] n = "ENABLE_LIVE_TRADING" -> s_True]

\* several variables malformed at once
MalformedEnv ==
    [n \in {"FIREBASE_CREDENTIALS", "LOG_LEVEL", "MAX_DATA_POINTS",
            "MAX_PARALLEL_EXPERIMENTS", "SIMULATION_TIMEOUT_SECONDS"} |->
        CASE n = "FIREBASE_CREDENTIALS" -> s_creds_json
          [] n = "LOG_LEVEL" -> s_info
          [] n = "MAX_DATA_POINTS" -> s_abc
          [] n = "MAX_PARALLEL_EXPERIMENTS" -> s_4dot5
          [] n = "SIMULATION_TIMEOUT_SECONDS" -> s_empty]

\* several constraints violated at once
OutOfRangeEnv ==
    [n \in {"FIREBASE_PROJECT_ID", "FIREBASE_CREDENTIALS", "MARKET_DATA_SOURCE",
            "MAX_DATA_POINTS", "MAX_PARALLEL_EXPERIMENTS",
            "SIMULATION_TIMEOUT_SECONDS"} |->
        CASE n = "FIREBASE_PROJECT_ID" -> s_proj1
          [] n = "FIREBASE_CREDENTIALS" -> s_creds_json
          [] n = "MARKET_DATA_SOURCE" -> s_kraken
          [] n = "MAX_DATA_POINTS" -> s_m1
          [] n = "MAX_PARALLEL_EXPERIMENTS" -> s_0
          [] n = "SIMULATION_TIMEOUT_SECONDS" -> s_29]

BaseEnvs == {EmptyEnv, MinimalEnv, FullEnv, MalformedEnv, OutOfRangeEnv}

\* the attributes of a constructed object, as paths, and values to assign
Attributes ==
    {<<"log_level">>, <<"system_id">>, <<"firebase", "project_id">>,
     <<"firebase", "credentials_path">>, <<"data", "market_data_source">>,
     <<"data", "max_data_points">>, <<"data", "cache_enabled">>,
     <<"max_parallel_experiments">>, <<"simulation_timeout_seconds">>,
     <<"enable_causal_discovery">>, <<"enable_live_trading">>}

AttrValues(a) ==
    CASE a = <<"log_level">> -> {[name |-> s_ERROR, value |-> 40]}
      [] a = <<"system_id">> -> {s_sys2}
      [] a = <<"firebase", "project_id">> -> {s_empty}
      [] a = <<"firebase", "credentials_path">> -> {s_abc}
      [] a = <<"data", "market_data_source">> -> {s_kraken}
      [] a \in {<<"data", "max_data_points">>, <<"max_parallel_experiments">>,
                <<"simulation_timeout_seconds">>} -> {0}
      [] OTHER -> BOOLEAN

NoRet == [status |-> "none"]

(***************************************************************************)
(* The state machine.  pc is the position of the one thread: "idle"        *)
(* outside a construction, "post_init" between the generated __init__ and  *)
(* __post_init__, when self holds the object under construction.  ret is   *)
(* the outcome of the last call of ASDEConfig(), obj the object a consumer *)
(* holds, fresh whether environment and files are as that call saw them.   *)
(***************************************************************************)
Init ==
    /\ env \in BaseEnvs
    /\ fs \in SUBSET Paths
    /\ pc = "idle"
    /\ self = None
    /\ ret = NoRet
    /\ obj = None
    /\ fresh = FALSE
    /\ ops = 0
    /\ calls = 0

\* os.environ[name] = value, outside the construction
SetEnv(name, value) ==
    /\ pc = "idle"
    /\ ops < MaxOps
    /\ env' = [n \in DOMAIN env \cup {name} |-> IF n = name THEN value ELSE env[n]]
    /\ ops' = ops + 1
    /\ fresh' = FALSE
    /\ UNCHANGED <<fs, pc, self, ret, obj, calls>>

\* del os.environ[name]
UnsetEnv(name) ==
    /\ pc = "idle"
    /\ ops < MaxOps
    /\ name \in DOMAIN env
    /\ env' = [n \in DOMAIN env \ {name} |-> env[n]]
    /\ ops' = ops + 1
    /\ fresh' = FALSE
    /\ UNCHANGED <<fs, pc, self, ret, obj, calls>>

\* a file appears
CreateFile(path) ==
    /\ pc = "idle"
    /\ ops < MaxOps
    /\ path \notin fs
    /\ fs' = fs \cup {path}
    /\ ops' = ops + 1
    /\ fresh' = FALSE
    /\ UNCHANGED <<env, pc, self, ret, obj, calls>>

\* a file is removed
RemoveFile(path) ==
    /\ pc = "idle"
    /\ ops < MaxOps
    /\ path \in fs
    /\ fs' = fs \ {path}
    /\ ops' = ops + 1
    /\ fresh' = FALSE
    /\ UNCHANGED <<env, pc, self, ret, obj, calls>>

\* ASDEConfig(): the generated __init__ resolves every field, in order
Construct ==
    /\ pc = "idle"
    /\ calls < MaxCalls
    /\ calls' = calls + 1
    /\ LET r == ASDEConfigInit(env)
       IN  IF r.raised
           THEN /\ ret' = [status |-> "raised", err |-> r.err]
                /\ fresh' = TRUE
                /\ UNCHANGED <<pc, self>>
           ELSE /\ self' = r.val
                /\ pc' = "post_init"
                /\ ret' = NoRet
                /\ fresh' = FALSE
    /\ UNCHANGED <<env, fs, obj, ops>>

\* ... and then calls __post_init__; the object reaches the caller only
\* when that returns
Validate ==
    /\ pc = "post_init"
    /\ LET r == PostInit(self, fs)
       IN  IF r.raised
           THEN /\ ret' = [status |-> "raised", err |-> r.err]
                /\ UNCHANGED obj
           ELSE /\ ret' = [status |-> "returned", cfg |-> self]
                /\ obj' = self
    /\ self' = None
    /\ pc' = "idle"
    /\ fresh' = TRUE
    /\ UNCHANGED <<env, fs, ops, calls>>

\* config.<attribute> = value: the dataclasses are not frozen
SetAttr(a, value) ==
    /\ pc = "idle"
    /\ obj # None
    /\ ops < MaxOps
    /\ ops' = ops + 1
    /\ obj' = IF Len(a) = 1 THEN [obj EXCEPT ![a[1]] = value]
              ELSE [obj EXCEPT ![a[1]][a[2]] = value]
    /\ UNCHANGED <<env, fs, pc, self, ret, fresh, calls>>

Next ==
    \/ \E name \in EnvNames : \E value \in EnvValues(name) : SetEnv(name, value)
    \/ \E name \in EnvNames : UnsetEnv(name)
    \/ \E path \in Paths : CreateFile(path)
    \/ \E path \in Paths : RemoveFile(path)
    \/ Construct
    \/ Validate
    \/ \E a \in Attributes : \E value \in AttrValues(a) : SetAttr(a, value)

Spec == Init /\ [][Next]_vars

(***************************************************************************)
(* Vocabulary of the properties, written from the documented contract and  *)
(* independently of the operators above.                                   *)
(***************************************************************************)
Returned == ret.status = "returned"

Failed == ret.status = "raised"

\* the six documented constraints on a configuration, given the files
SixConstraints(c, files) ==
    /\ c.firebase.project_id # s_empty
    /\ c.firebase.credentials_path \in files
    /\ c.data.max_data_points > 0
    /\ c.data.market_data_source \in {s_ccxt, s_yfinance, s_alpaca}
    /\ c.max_parallel_experiments >= 1
    /\ c.simulation_timeout_seconds >= 30

\* the documented checks, in the documented order, and the message of each
CheckViolated(k, c, files) ==
    CASE k = 1 -> c.firebase.project_id = s_empty
      [] k = 2 -> c.firebase.credentials_path \notin files
      [] k = 3 -> c.data.max_data_points <= 0
      [] k = 4 -> c.data.market_data_source \notin {s_ccxt, s_yfinance, s_alpaca}
      [] k = 5 -> c.max_parallel_experiments <= 0
      [] k = 6 -> c.simulation_timeout_seconds < 30

CheckMessage ==
    <<"FIREBASE_PROJECT_ID environment variable must be set",
      "Firebase credentials not found at: {}",
      "MAX_DATA_POINTS must be positive, got {}",
      "Invalid market data source. Must be one of ['ccxt', 'yfinance', 'alpaca']",
      "MAX_PARALLEL_EXPERIMENTS must be at least 1",
      "SIMULATION_TIMEOUT_SECONDS must be at least 30 seconds">>

\* the integer each explored integer string denotes; the others are malformed
DocumentedInt(s) ==
    CASE s = s_0 -> 0
      [] s = s_1 -> 1
      [] s = s_m1 -> 0 - 1
      [] s = s_29 -> 29
      [] s = s_30 -> 30
      [] s = s_sp7 -> 7

MalformedInts == {s_abc, s_4dot5, s_empty}

\* the explored spellings that are "true" once lower-cased
TrueSpellings == {s_true, s_TRUE, s_True}

\* the variables that are parsed, in the order their fields are declared
ParsedNames ==
    <<"LOG_LEVEL", "MAX_DATA_POINTS", "MAX_PARALLEL_EXPERIMENTS",
      "SIMULATION_TIMEOUT_SECONDS">>

IsMalformed(e, n) ==
    /\ n \in DOMAIN e
    /\ IF n = "LOG_LEVEL"
       THEN e[n] \notin {s_DEBUG, s_INFO, s_WARNING, s_ERROR, s_CRITICAL}
       ELSE e[n] \in MalformedInts

Malformed(e) == \E i \in DOMAIN ParsedNames : IsMalformed(e, ParsedNames[i])

ProjectIdMissing(e) ==
    "FIREBASE_PROJECT_ID" \notin DOMAIN e \/ e["FIREBASE_PROJECT_ID"] = s_empty

\* the documented value of each field in environment e
DocumentedString(e, n, default) == IF n \in DOMAIN e THEN e[n] ELSE default

DocumentedNumber(e, n, default) == IF n \in DOMAIN e THEN DocumentedInt(e[n]) ELSE default

DocumentedFlag(e, n, default) == IF n \in DOMAIN e THEN e[n] \in TrueSpellings ELSE default

FieldsAsDocumented(c, e) ==
    /\ c.log_level.name = DocumentedString(e, "LOG_LEVEL", s_INFO)
    /\ c.system_id = DocumentedString(e, "SYSTEM_ID", s_asde_prod_001)
    /\ c.firebase.project_id = DocumentedString(e, "FIREBASE_PROJECT_ID", s_empty)
    /\ c.firebase.credentials_path =
          DocumentedString(e, "FIREBASE_CREDENTIALS", s_firebase_credentials_json)
    /\ c.data.market_data_source = DocumentedString(e, "MARKET_DATA_SOURCE", s_ccxt)
    /\ c.data.max_data_points = DocumentedNumber(e, "MAX_DATA_POINTS", 100000)
    /\ c.data.cache_enabled = DocumentedFlag(e, "CACHE_ENABLED", TRUE)
    /\ c.max_parallel_experiments = DocumentedNumber(e, "MAX_PARALLEL_EXPERIMENTS", 4)
    /\ c.simulation_timeout_seconds =
          DocumentedNumber(e, "SIMULATION_TIMEOUT_SECONDS", 300)
    /\ c.enable_causal_discovery = DocumentedFlag(e, "ENABLE_CAUSAL_DISCOVERY", TRUE)
    /\ c.enable_live_trading = DocumentedFlag(e, "ENABLE_LIVE_TRADING", FALSE)

\* every recognized variable is present and valid, and the credentials exist
AllPresentAndValid(e, files) ==
    /\ DOMAIN e = EnvNames
    /\ ~Malformed(e)
    /\ e["FIREBASE_PROJECT_ID"] # s_empty
    /\ e["FIREBASE_CREDENTIALS"] \in files
    /\ e["MARKET_DATA_SOURCE"] \in {s_ccxt, s_yfinance, s_alpaca}
    /\ DocumentedInt(e["MAX_DATA_POINTS"]) > 0
    /\ DocumentedInt(e["MAX_PARALLEL_EXPERIMENTS"]) >= 1
    /\ DocumentedInt(e["SIMULATION_TIMEOUT_SECONDS"]) >= 30

(***************************************************************************)
(* C1.  A construction that returns hands over an object on which all six  *)
(* constraints hold (project id non-empty, credentials file existing, data *)
(* points > 0, data source allowed, parallel experiments >= 1, timeout >=  *)
(* 30); and whenever the resolved fields violate one of them, the          *)
(* construction raises and the caller receives no object.                  *)
(***************************************************************************)
C1_NoPartiallyValidObject ==
    /\ []((fresh /\ Returned) => SixConstraints(ret.cfg, fs))
    /\ [][(pc = "post_init" /\ ret'.status = "returned")
             => (obj' = ret'.cfg /\ SixConstraints(obj', fs'))]_vars
    /\ [][(pc = "post_init" /\ ~SixConstraints(self, fs))
             => (ret'.status = "raised" /\ obj' = obj)]_vars
    /\ [][(pc = "idle" /\ calls' # calls) => obj' = obj]_vars

C1_Witness ==
    /\ fresh
    /\ Returned
    /\ ret.cfg.simulation_timeout_seconds = 30
    /\ obj = ret.cfg
    /\ ops = 0

(***************************************************************************)
(* C2.  The checks run in the order project id, credentials file, data     *)
(* points, data source, parallel experiments, timeout: the error raised by *)
(* the validation is the error of the first check, in that order, that the *)
(* resolved fields violate, and it is the only error reported.             *)
(***************************************************************************)
C2_FirstViolatedCheckReported ==
    [][pc = "post_init" =>
          \A k \in 1..6 :
              (CheckViolated(k, self, fs) /\ \A j \in 1..(k - 1) : ~CheckViolated(j, self, fs))
                  => (ret'.status = "raised" /\ ret'.err.msg = CheckMessage[k])]_vars

\* data points, data source, parallel experiments and timeout all violated
C2_Witness ==
    /\ fresh
    /\ env = OutOfRangeEnv
    /\ s_creds_json \in fs
    /\ Failed
    /\ ret.err.msg = CheckMessage[3]

(***************************************************************************)
(* C3, as stated.  With FIREBASE_PROJECT_ID unset or empty the             *)
(* construction fails with the "must be set" error whatever the other      *)
(* variables hold, malformed ones included.                                *)
(***************************************************************************)
C3_MustBeSetWhateverElse ==
    (fresh /\ ProjectIdMissing(env)) => (Failed /\ ret.err.msg = CheckMessage[1])

(***************************************************************************)
(* C3, amended.  With FIREBASE_PROJECT_ID unset or empty the construction  *)
(* always fails: with the "must be set" error whenever no present variable *)
(* is malformed, whatever the other values (out-of-range ones included),   *)
(* and with the parse error of a malformed variable otherwise.             *)
(***************************************************************************)
C3_MustBeSetUnlessMalformed ==
    (fresh /\ ProjectIdMissing(env)) =>
        /\ Failed
        /\ ~Malformed(env) =>
              (ret.err.type = "ValueError" /\ ret.err.msg = CheckMessage[1])
        /\ Malformed(env) =>
              ret.err.msg \in {"{}", "invalid literal for int() with base 10: {}"}

\* project id missing, the credentials file missing and a value out of range
C3_Witness ==
    /\ fresh
    /\ ProjectIdMissing(env)
    /\ ~Malformed(env)
    /\ Getenv(env, "FIREBASE_CREDENTIALS", s_firebase_credentials_json) \notin fs
    /\ \E n \in IntNames : n \in DOMAIN env /\ env[n] = s_0
    /\ Failed
    /\ ret.err.msg = CheckMessage[1]

(***************************************************************************)
(* C4.  Every field is resolved as documented: the parsed value of its     *)
(* variable when that is present and valid, its documented default when    *)
(* the variable is absent; and when every recognized variable is present   *)
(* and valid and the credentials file exists, the construction succeeds    *)
(* with exactly those values.                                              *)
(***************************************************************************)
C4_FieldsResolvedAsDocumented ==
    /\ pc = "post_init" => FieldsAsDocumented(self, env)
    /\ (fresh /\ Returned) => FieldsAsDocumented(ret.cfg, env)
    /\ (fresh /\ AllPresentAndValid(env, fs)) => Returned

C4_Witness ==
    /\ fresh
    /\ env = FullEnv
    /\ Returned
    /\ ret.cfg.data.max_data_points = 1
    /\ ret.cfg.enable_live_trading = TRUE

\* the environment sets the project id, at most the credentials path, and n
C5_OnlyVariable(n) ==
    /\ fresh
    /\ DOMAIN env \subseteq {"FIREBASE_PROJECT_ID", "FIREBASE_CREDENTIALS", n}
    /\ n \in DOMAIN env
    /\ ~ProjectIdMissing(env)
    /\ DocumentedString(env, "FIREBASE_CREDENTIALS", s_firebase_credentials_json) \in fs

C5_FailsWith(k) == Failed /\ ret.err.type = "ValueError" /\ ret.err.msg = CheckMessage[k]

(***************************************************************************)
(* C5.  With the project id set, the credentials file existing and every   *)
(* other variable absent but one: MAX_DATA_POINTS=0 fails with the range   *)
(* error and =1 succeeds; SIMULATION_TIMEOUT_SECONDS=29 fails and =30      *)
(* succeeds; MAX_PARALLEL_EXPERIMENTS=0 fails and =1 succeeds; and a       *)
(* success hands the object to the caller.                                 *)
(***************************************************************************)
C5_NumericBoundaries ==
    /\ (C5_OnlyVariable("MAX_DATA_POINTS") /\ env["MAX_DATA_POINTS"] = s_0)
          => (C5_FailsWith(3) /\ ret.err.arg = <<s_0>>)
    /\ (C5_OnlyVariable("MAX_DATA_POINTS") /\ env["MAX_DATA_POINTS"] = s_1)
          => (Returned /\ ret.cfg.data.max_data_points = 1)
    /\ (C5_OnlyVariable("SIMULATION_TIMEOUT_SECONDS")
            /\ env["SIMULATION_TIMEOUT_SECONDS"] = s_29) => C5_FailsWith(6)
    /\ (C5_OnlyVariable("SIMULATION_TIMEOUT_SECONDS")
            /\ env["SIMULATION_TIMEOUT_SECONDS"] = s_30)
          => (Returned /\ ret.cfg.simulation_timeout_seconds = 30)
    /\ (C5_OnlyVariable("MAX_PARALLEL_EXPERIMENTS")
            /\ env["MAX_PARALLEL_EXPERIMENTS"] = s_0) => C5_FailsWith(5)
    /\ (C5_OnlyVariable("MAX_PARALLEL_EXPERIMENTS")
            /\ env["MAX_PARALLEL_EXPERIMENTS"] = s_1)
          => (Returned /\ ret.cfg.max_parallel_experiments = 1)
    /\ (fresh /\ Returned /\ ops = 0) => obj = ret.cfg

C5_Witness ==
    /\ C5_OnlyVariable("SIMULATION_TIMEOUT_SECONDS")
    /\ env["SIMULATION_TIMEOUT_SECONDS"] = s_29
    /\ C5_FailsWith(6)

(***************************************************************************)
(* C6.  A malformed value (a non-integer string for an integer variable, a *)
(* LOG_LEVEL that names no member) makes the construction fail with an     *)
(* error that identifies both the offending variable and the value         *)
(* received.                                                               *)
(***************************************************************************)
C6_ParseErrorNamesVariableAndValue ==
    (fresh /\ Malformed(env)) =>
        /\ Failed
        /\ \E i \in DOMAIN ParsedNames :
              /\ IsMalformed(env, ParsedNames[i])
              /\ ParsedNames[i] \in ret.err.names
              /\ ret.err.arg = <<env[ParsedNames[i]]>>

\* the boolean field of each boolean variable
C7_FlagsOf(c) ==
    [CACHE_ENABLED |-> c.data.cache_enabled,
     ENABLE_CAUSAL_DISCOVERY |-> c.enable_causal_discovery,
     ENABLE_LIVE_TRADING |-> c.enable_live_trading]

(***************************************************************************)
(* C7.  A boolean field is true exactly when its variable, lower-cased, is *)
(* "true", false for every other present string ("1", "yes" and the empty  *)
(* string included), and no error of a construction comes from a boolean   *)
(* variable.                                                               *)
(***************************************************************************)
C7_BooleansCaseInsensitive ==
    /\ pc = "post_init" =>
          \A n \in FlagNames \cap DOMAIN env :
              C7_FlagsOf(self)[n] = (env[n] \in TrueSpellings)
    /\ (pc = "idle" /\ fresh /\ ~Malformed(env)) =>
          (Returned \/ (Failed /\ ret.err.names \cap FlagNames = {}
                               /\ \E k \in 1..6 : ret.err.msg = CheckMessage[k]))

C7_Witness ==
    /\ fresh
    /\ Returned
    /\ "CACHE_ENABLED" \in DOMAIN env
    /\ env["CACHE_ENABLED"] = s_TRUE
    /\ ret.cfg.data.cache_enabled = TRUE
    /\ "ENABLE_CAUSAL_DISCOVERY" \in DOMAIN env
    /\ env["ENABLE_CAUSAL_DISCOVERY"] = s_yes
    /\ ret.cfg.enable_causal_discovery = FALSE

(***************************************************************************)
(* C9.  Once constructed, every field of the object (those of its firebase *)
(* and data sub-configs included) keeps the value it had at construction   *)
(* in every later state: no step outside a construction changes a field of *)
(* the object a consumer holds.                                            *)
(***************************************************************************)
C9_FieldsNeverChange ==
    [][(obj # None /\ pc = "idle" /\ calls' = calls) => obj' = obj]_vars

\* the first malformed variable of e in declaration order
C10_FirstMalformed(e) ==
    LET bad == {i \in DOMAIN ParsedNames : IsMalformed(e, ParsedNames[i])}
    IN  ParsedNames[CHOOSE i \in bad : \A j \in bad : i <= j]

(***************************************************************************)
(* C10.  Every field is resolved before the first check of the validation  *)
(* runs, so the validation starts only when nothing is malformed; and when *)
(* a variable is malformed, the construction fails with the parse error of *)
(* the first malformed variable in declaration order (LOG_LEVEL,           *)
(* MAX_DATA_POINTS, MAX_PARALLEL_EXPERIMENTS, SIMULATION_TIMEOUT_SECONDS), *)
(* whatever constraints the other settings violate.                        *)
(***************************************************************************)
C10_ParseErrorsBeforeValidation ==
    /\ pc = "post_init" =>
          /\ ~Malformed(env)
          /\ DOMAIN self = Range(ASDEConfigFields)
          /\ DOMAIN self.firebase = Range(FirebaseConfigFields)
          /\ DOMAIN self.data = Range(DataConfigFields)
    /\ (fresh /\ Malformed(env)) =>
          /\ Failed
          /\ ret.err.arg = <<env[C10_FirstMalformed(env)]>>
          /\ IF C10_FirstMalformed(env) = "LOG_LEVEL"
             THEN ret.err.type = "KeyError"
             ELSE /\ ret.err.type = "ValueError"
                  /\ ret.err.msg = "invalid literal for int() with base 10: {}"

\* two malformed variables and a missing project id
C10_Witness ==
    /\ fresh
    /\ ProjectIdMissing(env)
    /\ ~IsMalformed(env, "LOG_LEVEL")
    /\ IsMalformed(env, "MAX_DATA_POINTS")
    /\ IsMalformed(env, "MAX_PARALLEL_EXPERIMENTS")
    /\ env["MAX_DATA_POINTS"] # env["MAX_PARALLEL_EXPERIMENTS"]
    /\ Failed
    /\ ret.err.arg = <<env["MAX_DATA_POINTS"]>>

====
